---- MODULE Spec2Model ----
(***************************************************************************)
(* Model of eolearn/features/thresholding.py: the classes Thresholding and *)
(* Bluring, their constructors' validation, the _thresholding pipeline,    *)
(* execute and _blur.                                                      *)
(*                                                                         *)
(* Python semantics that the validation code depends on are modelled as    *)
(* Python defines them:                                                    *)
(*   - `|` is bitwise OR on unbounded two's-complement integers and binds  *)
(*     tighter than the comparison operators;                              *)
(*   - `a < b > c` is the chained comparison (a < b) and (b > c);          *)
(*   - `%` is the floor modulus, and is not defined between a tuple and an *)
(*     int (TypeError);                                                    *)
(*   - attribute lookup on an instance whose class does not define the     *)
(*     name raises AttributeError;                                         *)
(*   - calling a bound method with too many positional arguments raises    *)
(*     TypeError.                                                          *)
(*                                                                         *)
(* The cv2 primitives are external.  cvtColor(BGR2RGB) is computed (it     *)
(* swaps channels 0 and 2); adaptiveThreshold yields an arbitrary          *)
(* two-level map of the image's shape; threshold and the blur primitives   *)
(* yield a term that records the primitive and its arguments.  Images are  *)
(* taken to be shape-compatible with the primitives.                       *)
(***************************************************************************)
EXTENDS Integers, Sequences, FiniteSets, TLC

VARIABLES
    heap,       \* image buffers (numpy arrays) by reference: heap[r] is a sequence of pixels
    thr,        \* <<>> or <<obj>>: the Thresholding instance the caller holds
    thrCtor,    \* the last Thresholding(...) call: its arguments and what it raised
    pc,         \* position inside Thresholding._thresholding
    th_adaptiv, \* local of _thresholding: the adaptive-threshold output
    entry,      \* history: self.img and the buffer contents when _thresholding was entered
    calls,      \* history: the cv2 primitive calls of the current/last _thresholding or _blur
    result,     \* <<>> or <<v>>: what the last _thresholding / _blur returned
    ncalls,     \* number of _thresholding / _blur calls started
    eopatch,    \* eopatch[feature_type][feature_name]: a reference into heap
    execOut,    \* what the last execute(eopatch) raised ("" before any call)
    blr,        \* <<>> or <<obj>>: the Bluring instance the caller holds
    blrCtor     \* the last Bluring(...) call: its arguments and what it raised

vars == <<heap, thr, thrCtor, pc, th_adaptiv, entry, calls, result, ncalls,
          eopatch, execOut, blr, blrCtor>>

(* --------------------------- bounds ------------------------------------ *)

\* _thresholding / _blur calls made on one instance
MaxCalls == 2

(* ----------------------- Python integer operators ---------------------- *)

\* Python's a | b on unbounded two's-complement integers
RECURSIVE BitOr(_, _)
BitOr(a, b) ==
    IF a = 0 THEN b
    ELSE IF b = 0 THEN a
    ELSE IF a = -1 \/ b = -1 THEN -1
    ELSE 2 * BitOr(a \div 2, b \div 2)
           + (IF (a % 2) = 1 \/ (b % 2) = 1 THEN 1 ELSE 0)

\* Python's a % 2 (floor modulus; the same as TLA+'s for a positive divisor)
PyMod2(a) == a % 2

(* --------------------------- class constants --------------------------- *)

AVAILABLE_METHODS_ADAPTIVE_THRESHOLDING ==
    {"ADAPTIVE_THRESH_MEAN_C", "ADAPTIVE_THRESH_GAUSSIAN_C"}

AVAILABLE_METHODS_SIMPLE_THRESHOLDING ==
    {"THRESH_BINARY", "THRESH_BINARY_INV", "THRESH_TRUNC", "THRESH_TOZERO",
     "THRESH_TOZERO_INV"}

AVAILABLE_TRESHOLD_TYPE == {"THRESH_BINARY", "THRESH_BINARY_INV"}

AVAILABLE_BLURING_METHODS == {"none", "medianBlur", "GaussianBlur", "bilateralFilter"}

(* ------------------------------ inputs --------------------------------- *)

\* pixels are (c0, c1, c2) triples in the buffer's native channel order
PixA == <<10, 20, 30>>
PixB == <<200, 100, 50>>

\* the images the caller owns: buffer 1 is handed to the constructors,
\* buffer 2 is stored in the eopatch
InputImages == {<<PixA, PixB>>, <<PixB, PixB>>}
PatchImage == <<PixB, PixA>>

AdaptiveArgs == AVAILABLE_METHODS_ADAPTIVE_THRESHOLDING \cup {"ADAPTIVE_THRESH_MEDIAN"}
ThreshTypeArgs == AVAILABLE_TRESHOLD_TYPE \cup {"THRESH_TRUNC"}
SimpleArgs == AVAILABLE_METHODS_SIMPLE_THRESHOLDING \cup {"THRESH_MASK"}
BlockSizeArgs == {10, 11}
CArgs == {2}
MaskThArgs == {0, 10, 300}
MaxValueArgs == {-1, 255}
OtsuArgs == {0, 1, 2}
SimpleThValueArgs == {127, 256}
SimpleThMaxValueArgs == {255, 256}

\* feature as the caller writes it: (type, name) or (type, name, new name)
FeatureArgs == {<<"DATA", "bands">>, <<"DATA", "bands", "thresh">>}

ThresholdingArgs ==
    [feature : FeatureArgs, img : {1},
     simple_th_value : SimpleThValueArgs, simple_th_maxValue : SimpleThMaxValueArgs,
     adaptive_th : AdaptiveArgs, thresh_type : ThreshTypeArgs, simple_th : SimpleArgs,
     blockSize : BlockSizeArgs, c : CArgs, mask_th : MaskThArgs,
     maxValue : MaxValueArgs, otsu : OtsuArgs]

(* ---------------------- Thresholding.__init__ -------------------------- *)

\* rename_function = '{}_THRESH'.format
RenameFunction(name) == name \o "_THRESH"

\* EOTask._parse_features(feature, new_names=True, rename_function=...):
\* the (feature_type, feature_name, new_feature_name) triples
ParseFeatures(feature) ==
    IF Len(feature) = 3 THEN <<feature>>
    ELSE << <<feature[1], feature[2], RenameFunction(feature[2])>> >>

Raise(exc, line) == [exc |-> exc, line |-> line, obj |-> <<>>]

\* the bound checks of lines 84-97, with Python's precedence: `x < 0 | x > 255`
\* is x < (0 | x) > 255, `x > 255 | x < 0` is x > (255 | x) < 0 and
\* `x != 0 | x != 1` is x != (0 | x) != 1
MaskThRejected(x) == x < BitOr(0, x) /\ BitOr(0, x) > 255

ByteRejected(x) == x > BitOr(255, x) /\ BitOr(255, x) < 0

OtsuRejected(x) == x # BitOr(0, x) /\ BitOr(0, x) # 1

\* Thresholding(feature, img, ...) on an instance whose class does
\* (hasParse) or does not provide _parse_features.  The class statement of
\* line 9 names no base class, so for Thresholding itself hasParse is FALSE;
\* it is TRUE for a subclass that also derives from EOTask.
ThresholdingInit(hasParse, a) ==
    IF ~hasParse THEN Raise("AttributeError", 68)
    ELSE IF a.adaptive_th \notin AVAILABLE_METHODS_ADAPTIVE_THRESHOLDING
        THEN Raise("ValueError", 72)
    ELSE IF a.thresh_type \notin AVAILABLE_TRESHOLD_TYPE THEN Raise("ValueError", 75)
    ELSE IF a.simple_th \notin AVAILABLE_METHODS_SIMPLE_THRESHOLDING
        THEN Raise("ValueError", 78)
    ELSE IF PyMod2(a.blockSize) # 1 THEN Raise("ValueError", 81)
    ELSE IF MaskThRejected(a.mask_th) THEN Raise("ValueError", 85)
    ELSE IF ByteRejected(a.maxValue) THEN Raise("ValueError", 88)
    ELSE IF OtsuRejected(a.otsu) THEN Raise("ValueError", 91)
    ELSE IF ByteRejected(a.simple_th_value) THEN Raise("ValueError", 94)
    ELSE IF ByteRejected(a.simple_th_maxValue) THEN Raise("ValueError", 97)
    ELSE [exc |-> "", line |-> 97,
          obj |-> << [feature |-> ParseFeatures(a.feature), img |-> a.img,
                      adaptive_th |-> a.adaptive_th, thresh_type |-> a.thresh_type,
                      simple_th |-> a.simple_th, blockSize |-> a.blockSize,
                      c |-> a.c, mask_th |-> a.mask_th, maxValue |-> a.maxValue,
                      otsu |-> a.otsu, simple_th_value |-> a.simple_th_value,
                      simple_th_maxValue |-> a.simple_th_maxValue] >>]

(* ------------------------- Bluring.__init__ ---------------------------- *)

\* a Python value that is an int n is written <<n>>, a tuple (w, h) is <<w, h>>
IsTuple(v) == Len(v) = 2

\* line 198: `g % 2 != 1 | g != 0 | g < 0` is (g % 2) != (1 | g) != (0 | g) < 0
GKsizeRejected(g) ==
    /\ PyMod2(g) # BitOr(1, g)
    /\ BitOr(1, g) # BitOr(0, g)
    /\ BitOr(0, g) < 0

\* line 204: `m % 2 != 1 | m <= 1` is (m % 2) != (1 | m) <= 1
MKsizeRejected(m) == PyMod2(m) # BitOr(1, m) /\ BitOr(1, m) <= 1

GKsizeArgs == {<<5, 5>>, <<0, 0>>, <<3, 7>>, <<4, 4>>, <<-1, 3>>, <<5>>, <<-2>>}
MKsizeArgs == {-3, 0, 1, 2, 3, 4, 5}
BlurMethodArgs == AVAILABLE_BLURING_METHODS \cup {"boxFilter"}

BluringArgs ==
    [img : {1}, sigmaY : {0}, borderType : {4}, blur_method : BlurMethodArgs,
     gKsize : GKsizeArgs, sigmaX : {0}, mKsize : MKsizeArgs, d : {9},
     sigmaColor : {75}, sigmaSpace : {75}]

\* Bluring(img, sigmaY, borderType, ...): `tuple % int` raises TypeError
BluringInit(a) ==
    IF a.blur_method \notin AVAILABLE_BLURING_METHODS THEN Raise("ValueError", 195)
    ELSE IF IsTuple(a.gKsize) THEN Raise("TypeError", 198)
    ELSE IF GKsizeRejected(a.gKsize[1]) THEN Raise("ValueError", 199)
    ELSE IF MKsizeRejected(a.mKsize) THEN Raise("ValueError", 205)
    ELSE [exc |-> "", line |-> 210,
          obj |-> << [img |-> a.img, blur_method |-> a.blur_method,
                      gKsize |-> a.gKsize, sigmaX |-> a.sigmaX, sigmaY |-> a.sigmaY,
                      mKsize |-> a.mKsize, d |-> a.d, sigmaColor |-> a.sigmaColor,
                      sigmaSpace |-> a.sigmaSpace, borderType |-> a.borderType] >>]

(* ------------------------ cv2 / numpy primitives ----------------------- *)

\* saturate_cast<uchar> of the maxValue handed to cv.adaptiveThreshold
SaturateU8(v) == IF v < 0 THEN 0 ELSE IF v > 255 THEN 255 ELSE v

\* the possible outputs of cv.adaptiveThreshold on an image of n pixels:
\* every pixel is 0 or the (saturated) maxValue
AdaptiveOutputs(n, maxValue) == [1..n -> {0, SaturateU8(maxValue)}]

\* cv.cvtColor(img, cv.COLOR_BGR2RGB): channels 0 and 2 change places
BGR2RGB(img) == [i \in DOMAIN img |-> <<img[i][3], img[i][2], img[i][1]>>]

\* MaskOf with the comparison of line 111 written <= instead of <
MaskOfAtMost(th, mask_th) ==
    [i \in DOMAIN th |-> (IF th[i] <= mask_th THEN 1 ELSE 0) * 255]

\* line 111: mask = (th_adaptiv < self.mask_th) * 255
MaskOf(th, mask_th) ==
    [i \in DOMAIN th |-> (IF th[i] < mask_th THEN 1 ELSE 0) * 255]

\* line 112: self.img[mask != 0] = (255, 0, 0), the contents of the buffer afterwards
Recolor(img, mask) ==
    [i \in DOMAIN img |-> IF mask[i] # 0 THEN <<255, 0, 0>> ELSE img[i]]

(* ---------------------- Thresholding._thresholding --------------------- *)

\* lines 100-109: the cv.adaptiveThreshold call the four branches select
AdaptiveCall(self, src) ==
    LET call(method, type) ==
          [fn |-> "adaptiveThreshold", src |-> src, maxValue |-> self.maxValue,
           method |-> method, type |-> {type}, blockSize |-> self.blockSize,
           C |-> self.c]
    IN IF self.adaptive_th = "ADAPTIVE_THRESH_MEAN_C"
       THEN IF self.thresh_type = "THRESH_BINARY"
            THEN call("ADAPTIVE_THRESH_MEAN_C", "THRESH_BINARY")
            ELSE call("ADAPTIVE_THRESH_MEAN_C", "THRESH_BINARY_INV")
       ELSE IF self.thresh_type = "THRESH_BINARY"
            THEN call("ADAPTIVE_THRESH_GAUSSIAN_C", "THRESH_BINARY")
            ELSE call("ADAPTIVE_THRESH_GAUSSIAN_C", "THRESH_BINARY_INV")

\* lines 115-141: the cv.threshold call the branches select, <<>> in the
\* final else branch (result = self.img).  A sum of distinct cv flags is
\* written as the set of the flags.
SimpleCall(self, src) ==
    LET call(type) ==
          << [fn |-> "threshold", src |-> src, thresh |-> self.simple_th_value,
              maxval |-> self.simple_th_maxValue,
              type |-> IF self.otsu = 0 THEN {type} ELSE {type, "THRESH_OTSU"}] >>
    IN IF self.simple_th = "THRESH_BINARY" THEN call("THRESH_BINARY")
       ELSE IF self.simple_th = "THRESH_BINARY_INV" THEN call("THRESH_BINARY_INV")
       ELSE IF self.simple_th = "THRESH_TOZERO" THEN call("THRESH_TOZERO")
       ELSE IF self.simple_th = "THRESH_TOZERO_INV" THEN call("THRESH_TOZERO_INV")
       ELSE IF self.simple_th = "THRESH_TRUNC" THEN call("THRESH_TRUNC")
       ELSE <<>>

\* lines 100-109: self._thresholding() is entered and the adaptive threshold runs
ThresholdingAdaptive ==
    /\ Len(thr) = 1 /\ pc = "idle" /\ ncalls < MaxCalls
    /\ LET self == thr[1] IN
         /\ \E th \in AdaptiveOutputs(Len(heap[self.img]), self.maxValue) :
              th_adaptiv' = th
         /\ entry' = << [img |-> self.img, pixels |-> heap[self.img]] >>
         /\ calls' = << AdaptiveCall(self, heap[self.img]) >>
    /\ result' = <<>>
    /\ ncalls' = ncalls + 1
    /\ pc' = "mask"
    /\ UNCHANGED <<heap, thr, thrCtor, eopatch, execOut, blr, blrCtor>>

\* lines 111-112: the masked pixels of the buffer self.img refers to are overwritten
ThresholdingMask ==
    /\ pc = "mask"
    /\ LET self == thr[1]
           mask == MaskOf(th_adaptiv, self.mask_th)
       IN /\ heap' = [heap EXCEPT ![self.img] = Recolor(heap[self.img], mask)]
          /\ calls' = Append(calls, [fn |-> "setitem", mask |-> mask])
    /\ pc' = "cvt"
    /\ UNCHANGED <<thr, thrCtor, th_adaptiv, entry, result, ncalls, eopatch,
                   execOut, blr, blrCtor>>

\* line 114: self.img = cv.cvtColor(self.img, cv.COLOR_BGR2RGB), a new array
ThresholdingCvtColor ==
    /\ pc = "cvt"
    /\ LET self == thr[1] IN
         /\ heap' = Append(heap, BGR2RGB(heap[self.img]))
         /\ thr' = << [self EXCEPT !.img = Len(heap) + 1] >>
         /\ calls' = Append(calls, [fn |-> "cvtColor", src |-> heap[self.img],
                                    code |-> "COLOR_BGR2RGB"])
    /\ pc' = "simple"
    /\ UNCHANGED <<thrCtor, th_adaptiv, entry, result, ncalls, eopatch, execOut,
                   blr, blrCtor>>

\* lines 115-143: the simple threshold runs and its result is returned
ThresholdingSimple ==
    /\ pc = "simple"
    /\ LET self == thr[1]
           call == SimpleCall(self, heap[self.img])
       IN IF call = <<>>
          THEN /\ result' = <<self.img>>
               /\ UNCHANGED <<heap, calls>>
          ELSE /\ heap' = Append(heap, call[1])
               /\ result' = <<Len(heap) + 1>>
               /\ calls' = calls \o call
    /\ pc' = "idle"
    /\ UNCHANGED <<thr, thrCtor, th_adaptiv, entry, ncalls, eopatch, execOut,
                   blr, blrCtor>>

(* ------------------------- Thresholding.execute ------------------------ *)

\* line 99: the parameters of _thresholding after self
ThresholdingParams == <<>>

\* lines 145-149: the first iteration evaluates eopatch[type][name] and calls
\* self._thresholding with it; the method takes no argument besides self, so
\* the call raises TypeError before any statement of the method runs and
\* before anything is stored in the eopatch
Execute ==
    /\ Len(thr) = 1 /\ pc = "idle" /\ execOut = ""
    /\ LET self == thr[1]
           t == self.feature[1]
           argv == <<eopatch[t[1]][t[2]]>>
       IN /\ Len(argv) # Len(ThresholdingParams)
          /\ execOut' = "TypeError"
    /\ UNCHANGED <<heap, thr, thrCtor, pc, th_adaptiv, entry, calls, result,
                   ncalls, eopatch, blr, blrCtor>>

(* ------------------------------ Bluring._blur -------------------------- *)

\* BlurCall with the median branch handing the Gaussian kernel size to cv.medianBlur
BlurCallWrongKernel(self, src) ==
    IF self.blur_method = "bilateralFilter"
    THEN << [fn |-> "bilateralFilter", src |-> src, d |-> self.d,
             sigmaColor |-> self.sigmaColor, sigmaSpace |-> self.sigmaSpace,
             borderType |-> self.borderType] >>
    ELSE IF self.blur_method = "medianBlur"
    THEN << [fn |-> "medianBlur", src |-> src, ksize |-> self.gKsize[1]] >>
    ELSE IF self.blur_method = "GaussianBlur"
    THEN << [fn |-> "GaussianBlur", src |-> src, ksize |-> self.gKsize,
             sigmaX |-> self.sigmaX, sigmaY |-> self.sigmaY,
             borderType |-> self.borderType] >>
    ELSE <<>>

\* lines 212-223: the primitive call that _blur makes, <<>> when it makes none
BlurCall(self, src) ==
    IF self.blur_method = "bilateralFilter"
    THEN << [fn |-> "bilateralFilter", src |-> src, d |-> self.d,
             sigmaColor |-> self.sigmaColor, sigmaSpace |-> self.sigmaSpace,
             borderType |-> self.borderType] >>
    ELSE IF self.blur_method = "medianBlur"
    THEN << [fn |-> "medianBlur", src |-> src, ksize |-> self.mKsize] >>
    ELSE IF self.blur_method = "GaussianBlur"
    THEN << [fn |-> "GaussianBlur", src |-> src, ksize |-> self.gKsize,
             sigmaX |-> self.sigmaX, sigmaY |-> self.sigmaY,
             borderType |-> self.borderType] >>
    ELSE <<>>

\* self._blur(): the selected primitive's result becomes self.img and is returned
Blur ==
    /\ Len(blr) = 1 /\ ncalls < MaxCalls
    /\ LET self == blr[1]
           call == BlurCall(self, heap[self.img])
       IN /\ entry' = << [img |-> self.img, pixels |-> heap[self.img]] >>
          /\ calls' = call
          /\ IF call = <<>>
             THEN /\ result' = <<self.img>>
                  /\ UNCHANGED <<heap, blr>>
             ELSE /\ heap' = Append(heap, call[1])
                  /\ blr' = << [self EXCEPT !.img = Len(heap) + 1] >>
                  /\ result' = <<Len(heap) + 1>>
    /\ ncalls' = ncalls + 1
    /\ UNCHANGED <<thr, thrCtor, pc, th_adaptiv, eopatch, execOut, blrCtor>>

NoCall == <<>>

Init ==
    /\ \E im \in InputImages : heap = <<im, PatchImage>>
    /\ thr = <<>>
    /\ thrCtor = NoCall
    /\ pc = "idle"
    /\ th_adaptiv = <<>>
    /\ entry = <<>>
    /\ calls = <<>>
    /\ result = <<>>
    /\ ncalls = 0
    /\ eopatch = [DATA |-> [bands |-> 2]]
    /\ execOut = ""
    /\ blr = <<>>
    /\ blrCtor = NoCall

\* the caller evaluates Thresholding(...) (or the same on an EOTask subclass)
ConstructThresholding ==
    /\ thrCtor = NoCall /\ blrCtor = NoCall
    /\ \E hasParse \in BOOLEAN, a \in ThresholdingArgs :
         LET r == ThresholdingInit(hasParse, a) IN
           /\ thrCtor' = << [hasParse |-> hasParse, args |-> a, exc |-> r.exc,
                             line |-> r.line] >>
           /\ thr' = r.obj
    /\ UNCHANGED <<heap, pc, th_adaptiv, entry, calls, result, ncalls, eopatch,
                   execOut, blr, blrCtor>>

\* the caller evaluates Bluring(...)
ConstructBluring ==
    /\ thrCtor = NoCall /\ blrCtor = NoCall
    /\ \E a \in BluringArgs :
         LET r == BluringInit(a) IN
           /\ blrCtor' = << [args |-> a, exc |-> r.exc, line |-> r.line] >>
           /\ blr' = r.obj
    /\ UNCHANGED <<heap, thr, thrCtor, pc, th_adaptiv, entry, calls, result,
                   ncalls, eopatch, execOut>>

Next ==
    \/ ConstructThresholding
    \/ ThresholdingAdaptive
    \/ ThresholdingMask
    \/ ThresholdingCvtColor
    \/ ThresholdingSimple
    \/ Execute
    \/ ConstructBluring
    \/ Blur

Spec == Init /\ [][Next]_vars

(* ------------------------------ properties ----------------------------- *)

InByte(x) == x >= 0 /\ x <= 255

Odd(x) == x % 2 = 1

EnumsValid(a) ==
    /\ a.adaptive_th \in AVAILABLE_METHODS_ADAPTIVE_THRESHOLDING
    /\ a.thresh_type \in AVAILABLE_TRESHOLD_TYPE
    /\ a.simple_th \in AVAILABLE_METHODS_SIMPLE_THRESHOLDING

BoundsValid(a) ==
    /\ InByte(a.mask_th) /\ InByte(a.maxValue) /\ InByte(a.simple_th_value)
    /\ InByte(a.simple_th_maxValue) /\ a.otsu \in {0, 1}

Fns == [i \in DOMAIN calls |-> calls[i].fn]

CallsOf(fn) == SelectSeq(calls, LAMBDA r : r.fn = fn)

\* C1: a Thresholding(...) call whose enum arguments and blockSize are valid
\* raises ValueError whenever mask_th, maxValue, simple_th_value or
\* simple_th_maxValue lies outside 0..255 or otsu is neither 0 nor 1.  Stated
\* for instances whose class provides _parse_features, so that the bound
\* checks of lines 84-97 are reached.
C1_OutOfBoundsRejected ==
    thrCtor # NoCall =>
      LET a == thrCtor[1].args IN
        (thrCtor[1].hasParse /\ EnumsValid(a) /\ Odd(a.blockSize) /\ ~BoundsValid(a))
          => thrCtor[1].exc = "ValueError"

\* C2: execute(eopatch) completes without error and afterwards, for every
\* configured triple, eopatch[type][new name] holds the simple-threshold result
\* computed from the image of eopatch[type][name], which is still present.
C2_ExecuteWritesOutput ==
    execOut # "" =>
      /\ execOut = "ok"
      /\ \A i \in DOMAIN thr[1].feature :
           LET t == thr[1].feature[i] IN
             /\ t[2] \in DOMAIN eopatch[t[1]]
             /\ t[3] \in DOMAIN eopatch[t[1]]
             /\ heap[eopatch[t[1]][t[3]]].fn = "threshold"

\* C3: with adaptive_th and thresh_type (and simple_th) among the available
\* names and the other arguments within their documented bounds, the
\* constructor raises nothing, and _thresholding then makes exactly one
\* cv.adaptiveThreshold call with the configured method, type, maxValue,
\* blockSize and c.
C3_ConstructsAndDispatchesAdaptive ==
    /\ thrCtor # NoCall =>
         LET a == thrCtor[1].args IN
           (EnumsValid(a) /\ Odd(a.blockSize) /\ BoundsValid(a))
             => (thrCtor[1].exc = "" /\ Len(thr) = 1)
    /\ (Len(thr) = 1 /\ ncalls > 0) =>
         LET self == thr[1]
             cs == CallsOf("adaptiveThreshold")
         IN /\ Len(cs) = 1
            /\ cs[1].method = self.adaptive_th
            /\ cs[1].type = {self.thresh_type}
            /\ cs[1].maxValue = self.maxValue
            /\ cs[1].blockSize = self.blockSize
            /\ cs[1].C = self.c

\* C4: when _thresholding has returned on a constructed Thresholding, exactly
\* one cv.threshold call was made, its type is the configured simple_th with
\* THRESH_OTSU added if and only if otsu is 1, its thresh and maxval are
\* simple_th_value and simple_th_maxValue, and the value returned is not the
\* channel-reordered image of the fallback branch.
C4_ExactlyOneSimpleVariant ==
    (Len(thr) = 1 /\ pc = "idle" /\ result # <<>>) =>
      LET self == thr[1]
          cs == CallsOf("threshold")
      IN /\ Len(cs) = 1
         /\ self.simple_th \in cs[1].type
         /\ cs[1].type \subseteq {self.simple_th, "THRESH_OTSU"}
         /\ ("THRESH_OTSU" \in cs[1].type) <=> (self.otsu = 1)
         /\ cs[1].thresh = self.simple_th_value
         /\ cs[1].maxval = self.simple_th_maxValue
         /\ result[1] # self.img

\* C5: a Thresholding(...) call with adaptive_th, thresh_type or simple_th
\* outside its set of names, or with an even blockSize, raises ValueError and
\* the caller gets no object.
C5_InvalidEnumRejected ==
    thrCtor # NoCall =>
      LET a == thrCtor[1].args IN
        (~EnumsValid(a) \/ ~Odd(a.blockSize))
          => (thrCtor[1].exc = "ValueError" /\ thr = <<>>)

\* C6: a Bluring(...) call that gets as far as the median-kernel check raises
\* ValueError when mKsize is not both odd and greater than 1, and passes the
\* check (the constructor returns) when it is.
C6_MedianKernelChecked ==
    blrCtor # NoCall =>
      LET a == blrCtor[1].args IN
        blrCtor[1].line > 199 =>
          IF Odd(a.mKsize) /\ a.mKsize > 1
          THEN blrCtor[1].exc = ""
          ELSE blrCtor[1].exc = "ValueError"

\* C7: with a valid blur_method, the Gaussian-kernel check lets through every
\* gKsize that is a pair of odd positive integers or (0, 0), raises ValueError
\* for every pair with an even non-zero or a negative component, and raises no
\* other kind of error.
C7_GaussianKernelChecked ==
    blrCtor # NoCall =>
      LET a == blrCtor[1].args
          g == a.gKsize
          atGauss == blrCtor[1].line \in {198, 199}
      IN (a.blur_method \in AVAILABLE_BLURING_METHODS /\ IsTuple(g)) =>
           /\ ((\A i \in 1..2 : Odd(g[i]) /\ g[i] > 0) \/ (\A i \in 1..2 : g[i] = 0))
                => ~atGauss
           /\ (\E i \in 1..2 : g[i] < 0 \/ (g[i] # 0 /\ ~Odd(g[i])))
                => (atGauss /\ blrCtor[1].exc = "ValueError")
           /\ atGauss => blrCtor[1].exc = "ValueError"

\* C8: every field of a constructed Thresholding, the stored image reference
\* included, keeps the value the constructor gave it.
C8_ConfigNeverChanges ==
    Len(thr) = 1 =>
      thr = ThresholdingInit(thrCtor[1].hasParse, thrCtor[1].args).obj

\* C9: after _blur on a constructed Bluring: with blur_method 'none' no
\* primitive was called and the stored image (reference and contents) is what
\* it was and is what was returned; with 'medianBlur', 'GaussianBlur' or
\* 'bilateralFilter' exactly the one matching primitive was called, on the
\* stored image with the configured parameters, and its result is both the
\* instance's image and the value returned.
C9_BlurDispatch ==
    (Len(blr) = 1 /\ ncalls > 0) =>
      LET self == blr[1]
          e == entry[1]
          m == self.blur_method
          expected ==
            IF m = "medianBlur"
            THEN [fn |-> "medianBlur", src |-> e.pixels, ksize |-> self.mKsize]
            ELSE IF m = "GaussianBlur"
            THEN [fn |-> "GaussianBlur", src |-> e.pixels, ksize |-> self.gKsize,
                  sigmaX |-> self.sigmaX, sigmaY |-> self.sigmaY,
                  borderType |-> self.borderType]
            ELSE [fn |-> "bilateralFilter", src |-> e.pixels, d |-> self.d,
                  sigmaColor |-> self.sigmaColor, sigmaSpace |-> self.sigmaSpace,
                  borderType |-> self.borderType]
      IN /\ heap[e.img] = e.pixels
         /\ IF m = "none"
            THEN /\ calls = <<>>
                 /\ self.img = e.img
                 /\ result = <<e.img>>
            ELSE /\ calls = <<expected>>
                 /\ self.img # e.img
                 /\ heap[self.img] = expected
                 /\ result = <<self.img>>

\* a 'medianBlur' Bluring whose _blur has run
C9_Witness ==
    /\ Len(blr) = 1 /\ ncalls > 0
    /\ blr[1].blur_method = "medianBlur"
    /\ Len(calls) = 1

\* the buffer contents the mask-and-recolor step must leave
ExpectedRecolor(pixels, th, mask_th) ==
    [i \in DOMAIN pixels |-> IF th[i] < mask_th THEN <<255, 0, 0>> ELSE pixels[i]]

\* C10: in _thresholding the steps run in the order adaptive threshold,
\* mask-and-recolor, BGR-to-RGB, simple threshold; the mask is set exactly
\* where the adaptive output is strictly below mask_th; exactly those pixels of
\* the buffer the call started from are overwritten with (255, 0, 0), before
\* the channel reordering, which reads the overwritten buffer; and the value
\* returned is the simple threshold's result, not the buffer that was mutated.
C10_PipelineOrder ==
    (Len(thr) = 1 /\ ncalls > 0) =>
      LET self == thr[1]
          e == entry[1]
          rec == ExpectedRecolor(e.pixels, th_adaptiv, self.mask_th)
      IN /\ pc = "mask" =>
              /\ Fns = <<"adaptiveThreshold">>
              /\ calls[1].src = e.pixels
              /\ self.img = e.img /\ heap[e.img] = e.pixels
         /\ pc = "cvt" =>
              /\ Fns = <<"adaptiveThreshold", "setitem">>
              /\ \A i \in DOMAIN th_adaptiv :
                   (calls[2].mask[i] # 0) <=> (th_adaptiv[i] < self.mask_th)
              /\ self.img = e.img /\ heap[e.img] = rec
         /\ pc = "simple" =>
              /\ Fns = <<"adaptiveThreshold", "setitem", "cvtColor">>
              /\ calls[3].src = rec
              /\ self.img # e.img /\ heap[e.img] = rec
              /\ heap[self.img] = [i \in DOMAIN rec |-> <<rec[i][3], rec[i][2], rec[i][1]>>]
         /\ pc = "idle" =>
              /\ Fns = <<"adaptiveThreshold", "setitem", "cvtColor", "threshold">>
              /\ heap[e.img] = rec
              /\ result # <<>> /\ result[1] # e.img
              /\ heap[result[1]] = calls[4]
              /\ calls[4].src = heap[self.img]

\* _thresholding has returned after a mask that covered some pixels of the
\* buffer and spared others
C10_Witness ==
    /\ Len(thr) = 1 /\ pc = "idle" /\ result # <<>>
    /\ \E i, j \in DOMAIN th_adaptiv :
         /\ th_adaptiv[i] < thr[1].mask_th
         /\ ~(th_adaptiv[j] < thr[1].mask_th)
====
